---- MODULE Spec2Model ----
(***************************************************************************)
(* Model of the proxy router of packages/proxy-router/src/index.ts: the    *)
(* routing config store (loadConfig / watchConfig), the route resolver     *)
(* (resolveProxy, connectToHost), the upstream connector                   *)
(* (connectViaHttpConnect, connectViaSocks5, connectViaProxy,              *)
(* connectDirect) and the per-connection handler (handleConnection,        *)
(* handleConnect).                                                         *)
(*                                                                         *)
(* Node runs every callback to completion, and a promise continuation runs *)
(* before the next I/O event is dispatched.  One action of the model is    *)
(* therefore one I/O event (a chunk of data, a connect callback, an error  *)
(* event, a watcher event) together with all the code it runs until the    *)
(* next await that waits for I/O.                                          *)
(***************************************************************************)
EXTENDS Integers, Sequences, FiniteSets, TLC

VARIABLES
    config,      \* this.config: the snapshot, NullConfig when null
    watcher,     \* this.configWatcher # null
    listening,   \* this.server is listening
    nLoads,      \* number of loadConfig calls so far
    lastLoad,    \* outcome of the most recent loadConfig call
    conns,       \* per client socket: the state of its handler
    sock,        \* one SOCKS5 upstream socket, byte by byte (SpecSocks)
    client,      \* one client socket, read by read (SpecClient)
    orphans,     \* watchers and listeners still open that the router no longer holds
    notified,    \* arguments of the onConfigReload calls of the latest loadConfig
    stopPc       \* stop(): "no" not called, "closing" awaiting server.close, "done"

vars == <<config, watcher, listening, nLoads, lastLoad, conns, sock, client, orphans, notified, stopPc>>

(***************************************************************************)
(* Bounds.                                                                 *)
(***************************************************************************)
MaxLoads == 2     \* loadConfig calls in one behaviour (start + reloads)
MaxCopied == 1    \* chunks piped through an established tunnel
MaxBuffered == 2  \* reads of a client that hold no header terminator
MaxLate == 1      \* reads of a client after its request was answered 400

ConnIds == {"c1"}

(***************************************************************************)
(* Proxy URLs.  A URL text scheme://[user:pass@]host:port is the record of *)
(* its written components; user = "" when the text has no credentials.    *)
(* NullUrl stands for JSON null.                                           *)
(***************************************************************************)
NullUrl == [scheme |-> "", user |-> "", pass |-> "", host |-> "", port |-> 0]

Url(s, u, p, h, n) == [scheme |-> s, user |-> u, pass |-> p, host |-> h, port |-> n]

KeyUrls ==
    { Url("http", "u", "p", "proxyhost", 8080),
      Url("socks5", "", "", "proxyhost", 1080),
      Url("http", "", "", "proxyhost", 80) }

SystemUrls ==
    { Url("http", "su", "sp", "sysproxy", 3128),
      Url("socks5", "", "", "sysproxy", 1080),
      Url("https", "", "", "sysproxy", 443) }

\* WHATWG URL: the port of a special scheme that equals the scheme's default
\* is dropped by the parser, so that `port` reads as the empty string.
SpecialDefaultPort(scheme) ==
    CASE scheme = "http" -> <<80>>
      [] scheme = "https" -> <<443>>
      [] OTHER -> <<>>

\* new URL(text).port: <<>> for "", <<n>> for the digits of n
UrlPort(url) == IF SpecialDefaultPort(url.scheme) = <<url.port>> THEN <<>> ELSE <<url.port>>

\* new URL(text).hostname
UrlHostname(url) == url.host

\* new URL(text).protocol.replace(":", "")
UrlScheme(url) == url.scheme

\* parseInt(port || fallback, 10)
ParsePort(port, fallback) == IF port = <<>> THEN fallback ELSE port[1]

SystemFallbackPort == 1080
KeyFallbackPort == 8080

\* JavaScript truthiness of a string-or-null value read from a record
Truthy(v) == v # NullUrl

(***************************************************************************)
(* Routing config (types.ts).  A Record<string, T> is a function whose     *)
(* domain is the set of its own keys.                                      *)
(***************************************************************************)
Hosts == {"api.example.com", "other.example.org"}
MappedHosts == {"api.example.com"}
Providers == {"acme"}
Keys == {"key1", "key2"}

PartialFns(K, V) == UNION { [D -> V] : D \in SUBSET K }

\* keyProxies: any entry or none for key1, one proxy or none for key2
KeyProxyMaps ==
    { f \in PartialFns(Keys, KeyUrls \cup {NullUrl}) :
         "key2" \in DOMAIN f => f["key2"] = Url("socks5", "", "", "proxyhost", 1080) }

\* The snapshots a valid config file parses to.  Hosts outside MappedHosts
\* are the hosts absent from domainToProvider.
ProxyRouterConfig ==
    [ loaded : {TRUE},
      domainToProvider : [MappedHosts -> Providers],
      activeKeys : PartialFns(Providers, Keys),
      keyProxies : KeyProxyMaps,
      systemProxy : SystemUrls \cup {NullUrl} ]

EmptyMap == [x \in {} |-> ""]
EmptyUrlMap == [x \in {} |-> NullUrl]

NullConfig ==
    [ loaded |-> FALSE, domainToProvider |-> EmptyMap, activeKeys |-> EmptyMap,
      keyProxies |-> EmptyUrlMap, systemProxy |-> NullUrl ]

\* What a load can find: the file's state, the value parsed from valid JSON,
\* and whether the onConfigReload callback throws.  A throwing callback
\* leaves the same snapshot whatever was parsed, so one parsed value, one
\* with a system proxy, stands for all of them there.
LoadInputs ==
    { <<"missing", NullConfig, FALSE>>, <<"malformed", NullConfig, FALSE>> }
    \cup { <<"valid", parsed, FALSE>> : parsed \in ProxyRouterConfig }
    \cup { <<"valid", CHOOSE parsed \in ProxyRouterConfig : parsed.systemProxy # NullUrl, TRUE>> }

\* What the watcher's callback can find after an edit of the file.  The
\* edited files give the mapped host every route a snapshot can give it:
\* key1 is the active key, its proxy is absent, null or any key proxy URL,
\* and the system proxy is null or any system proxy URL.
ReloadConfigs ==
    { parsed \in ProxyRouterConfig :
         /\ parsed.activeKeys = [provider \in Providers |-> "key1"]
         /\ "key2" \notin DOMAIN parsed.keyProxies }

ReloadInputs ==
    { in \in LoadInputs : in[1] = "valid" /\ ~in[3] => in[2] \in ReloadConfigs }

\* resolveProxy reading keyProxies by the provider instead of by the active key
resolveProxyKeyedByProvider(cfg, targetHost) ==
    IF ~cfg.loaded THEN NullUrl
    ELSE IF targetHost \notin DOMAIN cfg.domainToProvider THEN NullUrl
    ELSE LET provider == cfg.domainToProvider[targetHost] IN
         IF provider \notin DOMAIN cfg.activeKeys THEN NullUrl
         ELSE IF provider \notin DOMAIN cfg.keyProxies THEN NullUrl
         ELSE cfg.keyProxies[provider]

\* resolveProxy without the activeKeys step: any key of keyProxies serves
resolveProxyAnyKey(cfg, targetHost) ==
    IF ~cfg.loaded THEN NullUrl
    ELSE IF targetHost \notin DOMAIN cfg.domainToProvider THEN NullUrl
    ELSE IF DOMAIN cfg.keyProxies = {} THEN NullUrl
    ELSE cfg.keyProxies[CHOOSE k \in DOMAIN cfg.keyProxies : TRUE]

(***************************************************************************)
(* ProxyRouter.resolveProxy: the per-key proxy URL of targetHost, NullUrl  *)
(* for null.                                                               *)
(***************************************************************************)
resolveProxy(cfg, targetHost) ==
    IF ~cfg.loaded THEN NullUrl
    ELSE IF targetHost \notin DOMAIN cfg.domainToProvider THEN NullUrl
    ELSE LET provider == cfg.domainToProvider[targetHost] IN
         IF provider \notin DOMAIN cfg.activeKeys THEN NullUrl
         ELSE LET activeKeyId == cfg.activeKeys[provider] IN
              IF activeKeyId \notin DOMAIN cfg.keyProxies THEN NullUrl
              ELSE LET proxyUrl == cfg.keyProxies[activeKeyId] IN
                   IF ~Truthy(proxyUrl) THEN NullUrl ELSE proxyUrl

\* this.config?.systemProxy as read by connectToHost
systemProxyOf(cfg) == IF ~cfg.loaded THEN NullUrl ELSE cfg.systemProxy

(***************************************************************************)
(* ProxyRouter.loadConfig: the snapshot after a load that finds `content`  *)
(* (with parsed value `parsed` when the content is valid JSON) and whose   *)
(* onConfigReload callback throws or not.                                  *)
(***************************************************************************)
\* loadConfig falling back to a built-in snapshot when the file is missing
loadConfigMissingAsDefault(content, parsed, observerThrows) ==
    CASE content = "missing" -> CHOOSE p \in ProxyRouterConfig : p.systemProxy # NullUrl
      [] content = "malformed" -> NullConfig
      [] OTHER -> IF observerThrows THEN NullConfig ELSE parsed

loadConfig(content, parsed, observerThrows) ==
    CASE content = "missing" -> NullConfig
      [] content = "malformed" -> NullConfig
      [] OTHER -> IF observerThrows THEN NullConfig ELSE parsed

\* observerCalls calling the observer on every load
observerCallsOnEveryLoad(content, parsed) == <<parsed>>

\* loadConfig: this.options.onConfigReload(this.config), reached when the file
\* exists and parses; the sequence of the arguments of the calls of one load
observerCalls(content, parsed) == IF content = "valid" THEN <<parsed>> ELSE <<>>

(***************************************************************************)
(* Log lines.  A log line is modelled by the proxy URLs it prints, as      *)
(* records; a line that prints no URL is the empty sequence.               *)
(***************************************************************************)
Stars == "*****"

\* proxyUrl.replace(/\/\/[^:]+:[^@]+@/, '//*****:*****@'): the pattern needs
\* a user and a password that are both non-empty
Redact(url) ==
    IF url.user # "" /\ url.pass # ""
    THEN [url EXCEPT !.user = Stars, !.pass = Stars]
    ELSE url

\* loadConfig: log.info("Config loaded successfully", {..., systemProxy:
\* this.config.systemProxy ?? "(none)"}), reached when the file parses
loadConfigLog(content, parsed) ==
    IF content = "valid" /\ parsed.systemProxy # NullUrl
    THEN <<parsed.systemProxy>>
    ELSE <<>>

\* resolveProxy: log.debug(`Routing ... → ${proxyUrl.replace(...)}`), reached
\* when the lookup chain gives a proxy URL
resolveProxyLog(cfg, host) ==
    IF Truthy(resolveProxy(cfg, host))
    THEN <<Redact(resolveProxy(cfg, host))>>
    ELSE <<>>

(***************************************************************************)
(* The outcome of one load, as start() and the watcher see it.             *)
(***************************************************************************)

loadOutcome(content, observerThrows) ==
    CASE content = "missing" -> "missing"
      [] content = "malformed" -> "malformed"
      [] OTHER -> IF observerThrows THEN "observer-threw" ELSE "ok"

(***************************************************************************)
(* Client requests.  The header block a client sends is its request line:  *)
(* method, host and port text (<<>> when the port is missing or not made   *)
(* of digits, <<n>> for the digits of n).  Every request line ends in      *)
(* HTTP/1.1.                                                               *)
(***************************************************************************)
Request(m, h, p) == [method |-> m, host |-> h, port |-> p]

\* host texts that contain a colon: IPv6 literals
HostsWithColon == { "[2001:db8::1]" }

Requests ==
    { Request("CONNECT", h, <<443>>) : h \in Hosts \cup HostsWithColon }
    \cup { Request("GET", "", <<>>), Request("CONNECT", "api.example.com", <<>>) }

\* requestLine.match(/^CONNECT\s+([^:\s]+):(\d+)\s+HTTP/)
MatchesConnect(req) ==
    req.method = "CONNECT" /\ req.host # "" /\ req.host \notin HostsWithColon /\ req.port # <<>>

(***************************************************************************)
(* What a hop can answer.  An HTTP response header block is the sequence   *)
(* of its lines, the status line first.                                    *)
(***************************************************************************)
StatusLines ==
    { "HTTP/1.1 200 Connection established",
      "HTTP/1.1 407 Proxy Authentication Required",
      "HTTP/1.1 502 Bad Gateway" }

HeaderLines == { "Via: 1.1 squid", "Content-Length: 200" }

HttpResponses == { <<s>> : s \in StatusLines } \cup { <<s, h>> : s \in StatusLines, h \in HeaderLines }

\* the lines of the model that contain the characters "200"
LinesWith200 == { "HTTP/1.1 200 Connection established", "Content-Length: 200" }

\* resp.includes("200") on the header block
Includes200(resp) == \E i \in 1..Len(resp) : resp[i] \in LinesWith200

\* the status line carries a 2xx status code
StatusLineOk(resp) == resp[1] = "HTTP/1.1 200 Connection established"

\* the 2-byte replies to the SOCKS5 greeting
GreetingReplies == { <<5, 0>>, <<5, 2>>, <<5, 255>>, <<4, 0>> }

\* the 4-byte heads ver, rep, rsv, atype of a SOCKS5 connect reply
ConnectReplies == { <<v, r, 0, a>> : v \in {5, 4}, r \in {0, 1, 5}, a \in {1, 3, 4, 2} }

\* length prefixes of a bound domain name
DomainLens == {0, 9}

(***************************************************************************)
(* Connections.                                                            *)
(*   pc     where the handler of the client socket is waiting              *)
(*   up     what the router did on the upstream socket, in order           *)
(*   down   the status lines written to the client socket, in order        *)
(*   buffered  reads held in handleConnection's buffer while its "data"    *)
(*             listener is attached (the listener's closure owns it)       *)
(*   late   "data" events handled after the request was answered 400       *)
(*   need   the byte count of the readBytes call in progress               *)
(*   clientEnded      the router has called end() on the client socket     *)
(*   clientDestroyed  the client socket is closed in both directions       *)
(*   clientEndEmitted the client socket has emitted "end"                  *)
(*   upEnded          the router has called end() on the upstream socket   *)
(*   upDestroyed      the upstream socket is closed in both directions     *)
(*   fail, okHops, partial, upEof: history of what the hops did            *)
(***************************************************************************)
NoAuth == <<>>
BasicAuth(user, pass) == <<[user |-> user, pass |-> pass]>>   \* "Basic " + base64(user:pass)

Ev(op, to, h, p, auth) == [op |-> op, to |-> to, host |-> h, port |-> p, auth |-> auth]

NewConn ==
    [ pc |-> "idle", host |-> "", port |-> 0, keyUrl |-> NullUrl, sysUrl |-> NullUrl,
      up |-> <<>>, down |-> <<>>, clientEnded |-> FALSE, upDestroyed |-> FALSE,
      need |-> 0, copied |-> 0, fail |-> "none", okHops |-> 0,
      partial |-> FALSE, upEof |-> FALSE, buffered |-> 0, late |-> 0,
      upEnded |-> FALSE, clientDestroyed |-> FALSE, clientEndEmitted |-> FALSE ]

WaitStates == {"dial", "sysHttp", "sysGreet", "sysReply", "sysDrainLen", "sysDrain", "keyHttp"}
HandshakeStates == WaitStates \ {"dial"}

\* handleConnect's catch block: clientSocket.end("HTTP/1.1 502 Bad Gateway\r\n\r\n")
Reject502(conn, why) ==
    [conn EXCEPT !.down = Append(@, "502"), !.clientEnded = TRUE, !.pc = "closed", !.fail = why]

\* connectViaProxy / connectDirect after the last await: the 200 line, then
\* pipe().  pipe() from a client socket that has already emitted "end" calls
\* end() on the upstream socket on the next tick.
Established(conn) ==
    LET piped == [conn EXCEPT !.down = Append(@, "200"), !.pc = "tunnel"]
    IN IF conn.clientEndEmitted
       THEN [piped EXCEPT !.pc = "closed", !.upEnded = TRUE]
       ELSE piped

\* connectViaProxy: proxyAuth and the CONNECT request for the final target
KeyProxyAuth(url) == IF url.user # "" THEN BasicAuth(url.user, url.pass) ELSE NoAuth

KeyConnectRequest(conn) ==
    Ev("connect", "key", conn.host, conn.port, KeyProxyAuth(conn.keyUrl))

\* The code that runs once connectToHost has returned its socket.
AfterConnectToHost(conn) ==
    IF Truthy(conn.keyUrl)
    THEN [conn EXCEPT !.up = Append(@, KeyConnectRequest(conn)), !.pc = "keyHttp", !.partial = FALSE]
    ELSE Established(conn)

\* The host and port handed to connectToHost: the per-key proxy's, parsed
\* from its URL by connectViaProxy, or the target's in connectDirect.
NextHost(conn) == IF Truthy(conn.keyUrl) THEN UrlHostname(conn.keyUrl) ELSE conn.host
NextPort(conn) ==
    IF Truthy(conn.keyUrl) THEN ParsePort(UrlPort(conn.keyUrl), KeyFallbackPort) ELSE conn.port
NextKind(conn) == IF Truthy(conn.keyUrl) THEN "key" ELSE "target"

\* connectToHost: scheme test of the system proxy
IsSocksScheme(scheme) == scheme = "socks5" \/ scheme = "socks"

\* DialEvent dialing the target itself when no system proxy is configured
DialEventToTarget(conn) ==
    IF ~Truthy(conn.sysUrl)
    THEN Ev("dial", "target", conn.host, conn.port, NoAuth)
    ELSE Ev("dial", "system", UrlHostname(conn.sysUrl),
            ParsePort(UrlPort(conn.sysUrl), SystemFallbackPort), NoAuth)

\* The first TCP connect of connectToHost.
DialEvent(conn) ==
    IF ~Truthy(conn.sysUrl)
    THEN Ev("dial", NextKind(conn), NextHost(conn), NextPort(conn), NoAuth)
    ELSE Ev("dial", "system", UrlHostname(conn.sysUrl),
            ParsePort(UrlPort(conn.sysUrl), SystemFallbackPort), NoAuth)

\* SystemConnectRequest naming the target instead of the next hop
SystemConnectRequestNamesTarget(conn) == Ev("connect", "system", conn.host, conn.port, NoAuth)

\* connectViaHttpConnect: the request written to the system proxy
SystemConnectRequest(conn) == Ev("connect", "system", NextHost(conn), NextPort(conn), NoAuth)

\* connectViaSocks5: greeting and connect request
SocksGreeting == Ev("greeting", "system", "", 0, NoAuth)
SocksConnectRequest(conn) == Ev("socksreq", "system", NextHost(conn), NextPort(conn), NoAuth)

(***************************************************************************)
(* One SOCKS5 upstream socket at the level of bytes: connectViaSocks5 from *)
(* the connect request onwards, and the pipe to the client that follows a  *)
(* direct tunnel.                                                          *)
(*   stage  the reader attached to the socket: readBytes for the reply     *)
(*          head, the length prefix or the bound address, or the pipe      *)
(*   want   the n of the pending readBytes(socket, n)                      *)
(*   acc    buf of the pending readBytes                                   *)
(*   rbuf   bytes given back with socket.unshift and not yet emitted       *)
(*   wire   bytes the proxy has sent that have not arrived yet             *)
(*   eaten  bytes the readBytes calls have resolved with, in order         *)
(*   out    bytes the pipe has written to the client, in order             *)
(*   reply  the connect reply the proxy sent                               *)
(*   host, port  the address the connect request is to name                *)
(*   sent   the connect request written to the socket                      *)
(***************************************************************************)
Payload == <<201, 202, 203>>

Bound(n) == [i \in 1..n |-> 100 + i]

\* the bytes of a connect reply: VER REP RSV ATYP and the bound address
ReplyBytes(r, n) ==
    <<r[1], r[2], 0, r[3]>> \o
        (CASE r[3] = 1 -> Bound(6)
           [] r[3] = 4 -> Bound(18)
           [] r[3] = 3 -> <<n>> \o Bound(n + 2)
           [] OTHER    -> <<>>)

SocksReplies ==
    { ReplyBytes(r, n) : r \in { <<v, c, a>> : v \in {5, 4}, c \in {0, 1}, a \in {1, 3, 4, 2} },
                         n \in DomainLens }

IdleSock ==
    [stage |-> "idle", want |-> 0, acc |-> <<>>, rbuf |-> <<>>, wire |-> <<>>,
     eaten |-> <<>>, out |-> <<>>, reply |-> <<>>, host |-> <<>>, port |-> 0,
     sent |-> <<>>]

\* the state at "const resp = await readBytes(socket, 4)"
StartSock(reply) ==
    [IdleSock EXCEPT !.stage = "reply", !.want = 4, !.wire = reply \o Payload,
                     !.reply = reply]

\* The code of connectViaSocks5 that runs when a readBytes promise resolves
\* with head, up to the next readBytes or the return of the socket.
SockResolved(s, head) ==
    CASE s.stage = "reply" ->
           IF head[1] # 5 \/ head[2] # 0
           THEN [s EXCEPT !.stage = "failed", !.want = 0]
           ELSE CASE head[4] = 1 -> [s EXCEPT !.stage = "drain", !.want = 4 + 2]
                  [] head[4] = 4 -> [s EXCEPT !.stage = "drain", !.want = 16 + 2]
                  [] head[4] = 3 -> [s EXCEPT !.stage = "len", !.want = 1]
                  [] OTHER       -> [s EXCEPT !.stage = "tunnel", !.want = 0]
      [] s.stage = "len"   -> [s EXCEPT !.stage = "drain", !.want = head[1] + 2]
      [] s.stage = "drain" -> [s EXCEPT !.stage = "tunnel", !.want = 0]
      [] OTHER             -> s

\* readBytes' onData: collect chunks until n bytes are there, resolve with
\* the first n and give the rest back to the socket with unshift.
readBytes(s, chunk) ==
    LET buf == s.acc \o chunk
    IN  IF Len(buf) < s.want
        THEN [s EXCEPT !.acc = buf]
        ELSE SockResolved([s EXCEPT !.acc = <<>>,
                                    !.eaten = @ \o SubSeq(buf, 1, s.want),
                                    !.rbuf = SubSeq(buf, s.want + 1, Len(buf))],
                          SubSeq(buf, 1, s.want))

\* a "data" event with chunk, given to the listener that is attached
SockData(s, chunk) ==
    CASE s.stage \in {"reply", "len", "drain"} -> readBytes(s, chunk)
      [] s.stage = "tunnel"                    -> [s EXCEPT !.out = @ \o chunk]
      [] OTHER                                 -> s

(***************************************************************************)
(* The SOCKS5 connect request in bytes.  A host name is the sequence of    *)
(* its bytes; the listener takes any non-empty host text without colon or  *)
(* white space and any run of digits as port.                              *)
(***************************************************************************)
\* Buffer.from(targetHost, "utf-8") for a host name of n bytes
HostBuf(n) == [i \in 1..n |-> 97]

HostBufLens == {1, 2, 15, 253, 255, 256, 300}

RequestPorts == {0, 1, 80, 255, 256, 443, 8080, 65535, 65536}

\* req[4] = hostBuf.length: an element of a Buffer keeps the low 8 bits
UInt8(x) == x % 256

\* req.writeUInt16BE(targetPort, ...) throws a RangeError above 65535
FitsUInt16(port) == port <= 65535

UInt16BE(port) == <<port \div 256, port % 256>>

\* connectViaSocks5: req
SocksRequestBytes(hostBuf, port) ==
    <<5, 1, 0, 3, UInt8(Len(hostBuf))>> \o hostBuf \o UInt16BE(port)

\* the state after the greeting was answered <<5, 0>>
StartRequest(hostBuf, port) ==
    [IdleSock EXCEPT !.stage = "greeted", !.host = hostBuf, !.port = port]

\* connectViaSocks5 from the answered greeting to the await of the reply: the
\* request is built and written, or writeUInt16BE throws before the write
RequestWritten(s) ==
    IF FitsUInt16(s.port)
    THEN [s EXCEPT !.stage = "reply", !.want = 4, !.sent = SocksRequestBytes(s.host, s.port)]
    ELSE [s EXCEPT !.stage = "failed"]

(***************************************************************************)
(* The client socket read by read.  What the client sends is a sequence    *)
(* of pieces: the two halves of a request line, CR, LF, a header line and  *)
(* the bytes that follow the header block; a read delivers any number of   *)
(* the pieces that have not arrived yet.  The record of the socket:        *)
(*   stage    "parsing": onData is attached and nothing is decided;        *)
(*            "rejected": answered 400, onData still attached;             *)
(*            "connecting": handleConnect runs, onData is removed;         *)
(*            "tunnel": piped to the upstream socket; "closed": answered   *)
(*            502                                                          *)
(*   wire     what the client has still to send                            *)
(*   buffer   the buffer of handleConnection                               *)
(*   arrived  everything read so far, reads the number of reads            *)
(*   target   the request handed to handleConnect, status the status       *)
(*            lines written, piped what was written to the upstream socket *)
(***************************************************************************)
Piece(k, m, h, p) == [kind |-> k, text |-> m, host |-> h, port |-> p]

CR == Piece("cr", "\r", "", <<>>)
LF == Piece("lf", "\n", "", <<>>)
Octet(x) == Piece("byte", x, "", <<>>)

\* the request line of a request, in two pieces
RequestLine(req) ==
    <<Piece("method", req.method, "", <<>>), Piece("target", "", req.host, req.port)>>

HostHeader == <<CR, LF, Piece("header", "Host", "", <<>>)>>

\* "\r\n\r\n"
HeaderEnd == <<CR, LF, CR, LF>>

ClientPayloads == { <<>>, <<Octet("x")>>, <<Octet("x"), Octet("y")>> }

LineRequests ==
    { Request("CONNECT", "api.example.com", <<443>>), Request("GET", "", <<>>),
      Request("CONNECT", "api.example.com", <<>>) }

ClientStreams ==
    { RequestLine(req) \o more \o HeaderEnd \o pay :
         req \in LineRequests, more \in {<<>>, HostHeader}, pay \in ClientPayloads }
    \cup { HeaderEnd \o <<Octet("x")>>,
           RequestLine(Request("CONNECT", "api.example.com", <<443>>)) \o <<CR, LF>> }

\* buffer.indexOf(pat): the first position of pat in buf, counted from 1,
\* and 0 when pat does not occur
IndexOf(buf, pat) ==
    LET hits == { i \in 1..(Len(buf) - Len(pat) + 1) :
                     SubSeq(buf, i, i + Len(pat) - 1) = pat }
    IN IF hits = {} THEN 0 ELSE CHOOSE i \in hits : \A j \in hits : i <= j

\* headerStr.split("\r\n")[0]
FirstLine(header) ==
    LET e == IndexOf(header, <<CR, LF>>)
    IN IF e = 0 THEN header ELSE SubSeq(header, 1, e - 1)

\* the request a request line reads as; <<>> for the empty line
RequestOfLine(line) ==
    IF Len(line) = 2 /\ line[1].kind = "method" /\ line[2].kind = "target"
    THEN <<Request(line[1].text, line[2].host, line[2].port)>>
    ELSE <<>>

IdleClient ==
    [stage |-> "idle", wire |-> <<>>, buffer |-> <<>>, arrived |-> <<>>, reads |-> 0,
     target |-> <<>>, status |-> <<>>, piped |-> <<>>]

StartClient(stream) == [IdleClient EXCEPT !.stage = "parsing", !.wire = stream]

\* clientSocket.end("HTTP/1.1 400 Bad Request\r\n\r\n"): the first call writes
\* the status line, a later call finds the writable side ended
End400(s) ==
    [s EXCEPT !.stage = "rejected",
              !.status = IF s.stage = "rejected" THEN @ ELSE Append(@, "400")]

\* onData handling each chunk on its own
onDataChunkOnly(s, chunk) ==
    LET headerEnd == IndexOf(chunk, HeaderEnd)
        req == RequestOfLine(FirstLine(SubSeq(chunk, 1, headerEnd - 1)))
    IN  IF headerEnd = 0 THEN [s EXCEPT !.buffer = chunk]
        ELSE IF req = <<>> \/ ~MatchesConnect(req[1]) THEN End400([s EXCEPT !.buffer = chunk])
        ELSE [s EXCEPT !.buffer = chunk, !.stage = "connecting", !.target = req]

\* handleConnection's onData
onData(s, chunk) ==
    LET buffer == s.buffer \o chunk
        headerEnd == IndexOf(buffer, HeaderEnd)
        req == RequestOfLine(FirstLine(SubSeq(buffer, 1, headerEnd - 1)))
    IN  IF headerEnd = 0 THEN [s EXCEPT !.buffer = buffer]
        ELSE IF req = <<>> \/ ~MatchesConnect(req[1]) THEN End400([s EXCEPT !.buffer = buffer])
        ELSE [s EXCEPT !.buffer = buffer, !.stage = "connecting", !.target = req]

\* a "data" event of the client socket: given to onData while it is
\* attached, to pipe() in a tunnel, and to nobody in between, when the
\* socket flows without a "data" listener
ClientData(s, chunk) ==
    LET t == [s EXCEPT !.arrived = @ \o chunk, !.reads = @ + 1]
    IN CASE s.stage \in {"parsing", "rejected"} -> onData(t, chunk)
         [] s.stage = "tunnel"                  -> [t EXCEPT !.piped = @ \o chunk]
         [] OTHER                               -> t

(***************************************************************************)
(* An upstream socket awaiting the response to an HTTP CONNECT request,    *)
(* byte by byte.  The record is that of the SOCKS5 socket: acc is the      *)
(* buffer of the "data" listener, out what the next stage received (the    *)
(* listener of the next handshake or the client through pipe(), both       *)
(* attached before the next read), reply the header block the hop sends,   *)
(* which Payload follows.                                                  *)
(***************************************************************************)
CRByte == 13
LFByte == 10

\* "\r\n\r\n" in bytes
ResponseEnd == <<CRByte, LFByte, CRByte, LFByte>>

\* "200" in bytes
Bytes200 == <<50, 48, 48>>

\* status codes 200, 403, 407 in bytes
StatusCodes == { Bytes200, <<52, 48, 51>>, <<52, 48, 55>> }

\* header blocks of a hop, each ended by the blank line: a status code
\* alone, followed by a header that reads 200, or by another header
HttpReplies ==
    { code \o more \o ResponseEnd :
         code \in StatusCodes,
         more \in { <<>>, <<CRByte, LFByte>> \o Bytes200, <<CRByte, LFByte, 86>> } }

\* the state after the CONNECT request was written
StartHttp(reply) ==
    [IdleSock EXCEPT !.stage = "http", !.wire = reply \o Payload, !.reply = reply]

\* onData of connectViaHttpConnect and of connectViaProxy: the listener
\* is removed and the promise settled once the header block is complete;
\* what was read after the header block stays in the local buffer
httpOnData(s, chunk) ==
    LET buf == s.acc \o chunk
        end == IndexOf(buf, ResponseEnd)
        resp == SubSeq(buf, 1, end - 1)
    IN  IF end = 0 THEN [s EXCEPT !.acc = buf]
        ELSE IF IndexOf(resp, Bytes200) # 0
             THEN [s EXCEPT !.acc = <<>>, !.eaten = resp \o ResponseEnd, !.stage = "tunnel"]
             ELSE [s EXCEPT !.acc = <<>>, !.eaten = resp \o ResponseEnd, !.stage = "failed"]

\* a "data" event with chunk, given to the listener that is attached
HttpData(s, chunk) ==
    CASE s.stage = "http"   -> httpOnData(s, chunk)
      [] s.stage = "tunnel" -> [s EXCEPT !.out = @ \o chunk]
      [] OTHER              -> s

(***************************************************************************)
(* Watchers and servers the router created that are still open while       *)
(* this.configWatcher / this.server no longer refer to them.               *)
(***************************************************************************)
NoOrphans == [watchers |-> 0, listeners |-> 0]

(***************************************************************************)
(* Initial state: a constructed router, before start().                    *)
(***************************************************************************)
Init ==
    /\ config = NullConfig
    /\ watcher = FALSE
    /\ listening = FALSE
    /\ nLoads = 0
    /\ lastLoad = "none"
    /\ conns = [c \in ConnIds |-> NewConn]
    /\ sock = IdleSock
    /\ client = IdleClient
    /\ orphans = NoOrphans
    /\ notified = <<>>
    /\ stopPc = "no"

(***************************************************************************)
(* start(): loadConfig, watchConfig (fs.watch throws on a missing file,    *)
(* which watchConfig catches), listen.                                     *)
(***************************************************************************)
Start(content, parsed, observerThrows) ==
    /\ ~listening
    /\ nLoads = 0
    /\ config' = loadConfig(content, parsed, observerThrows)
    /\ lastLoad' = loadOutcome(content, observerThrows)
    /\ notified' = observerCalls(content, parsed)
    /\ nLoads' = 1
    /\ watcher' = (content # "missing")
    /\ listening' = TRUE
    /\ UNCHANGED <<conns, sock, client, orphans, stopPc>>

\* The watcher's callback on a "change" event.
ChangeEvent(content, parsed, observerThrows) ==
    /\ watcher
    /\ nLoads < MaxLoads
    /\ config' = loadConfig(content, parsed, observerThrows)
    /\ lastLoad' = loadOutcome(content, observerThrows)
    /\ notified' = observerCalls(content, parsed)
    /\ nLoads' = nLoads + 1
    /\ UNCHANGED <<watcher, listening, conns, sock, client, orphans, stopPc>>

(***************************************************************************)
(* handleConnection and handleConnect.                                     *)
(***************************************************************************)

\* SetConn closing every other connection when this one is answered 502
SetConnFailureClosesAll(c, conn) ==
    /\ conns' = [d \in DOMAIN conns |->
                    IF d = c THEN conn
                    ELSE IF conn.fail # "none" /\ conns[d].pc # "idle"
                         THEN [conns[d] EXCEPT !.pc = "closed"]
                         ELSE conns[d]]
    /\ UNCHANGED <<config, watcher, listening, nLoads, lastLoad, sock, client, orphans, notified, stopPc>>

SetConn(c, conn) ==
    /\ conns' = [conns EXCEPT ![c] = conn]
    /\ UNCHANGED <<config, watcher, listening, nLoads, lastLoad, sock, client, orphans, notified, stopPc>>

Accept(c) ==
    /\ listening
    /\ conns[c].pc = "idle"
    /\ SetConn(c, [conns[c] EXCEPT !.pc = "parsing"])

\* Routed taking the system proxy from the snapshot held before the first load
RoutedMixed(conn, req) ==
    LET r == [conn EXCEPT !.host = req.host, !.port = req.port[1], !.buffered = 0,
                          !.keyUrl = resolveProxy(config, req.host),
                          !.sysUrl = systemProxyOf(NullConfig)]
    IN [r EXCEPT !.up = <<DialEvent(r)>>, !.pc = "dial"]

\* onData with a complete header block: parse, then handleConnect up to
\* the first await (resolveProxy, connectToHost, socket.connect).
Routed(conn, req) ==
    LET r == [conn EXCEPT !.host = req.host, !.port = req.port[1], !.buffered = 0,
                          !.keyUrl = resolveProxy(config, req.host),
                          !.sysUrl = systemProxyOf(config)]
    IN [r EXCEPT !.up = <<DialEvent(r)>>, !.pc = "dial"]

ClientRequest(c, req) ==
    /\ conns[c].pc = "parsing"
    /\ IF MatchesConnect(req)
       THEN SetConn(c, Routed(conns[c], req))
       ELSE SetConn(c, [conns[c] EXCEPT !.down = Append(@, "400"), !.clientEnded = TRUE,
                                        !.pc = "closed", !.buffered = @ + 1])

\* onData with a chunk that does not complete the header block: the chunk
\* is appended to the buffer and the handler returns.
ClientPartial(c) ==
    /\ conns[c].pc = "parsing"
    /\ conns[c].buffered < MaxBuffered
    /\ SetConn(c, [conns[c] EXCEPT !.buffered = @ + 1])

\* ClientLate with a writable side that takes the second end("400 ...")
ClientLateWritesAgain(c) ==
    /\ conns[c].pc = "closed"
    /\ conns[c].down = <<"400">>
    /\ conns[c].late < MaxLate
    /\ SetConn(c, [conns[c] EXCEPT !.buffered = @ + 1, !.late = @ + 1,
                                   !.down = Append(@, "400")])

\* onData after a 400: the listener is still attached and end() only closes
\* the writable side, so the chunk is appended, the same header block is
\* parsed again and end() is called again; nothing more can be written.
ClientLate(c) ==
    /\ conns[c].pc = "closed"
    /\ conns[c].down = <<"400">>
    /\ conns[c].late < MaxLate
    /\ SetConn(c, [conns[c] EXCEPT !.buffered = @ + 1, !.late = @ + 1])

\* Dialed reading the system proxy from the snapshot of the moment
DialedRereads(conn) ==
    LET now == [conn EXCEPT !.sysUrl = systemProxyOf(config)] IN
    IF ~Truthy(now.sysUrl) THEN AfterConnectToHost(now)
    ELSE IF IsSocksScheme(UrlScheme(now.sysUrl))
    THEN [now EXCEPT !.up = Append(@, SocksGreeting), !.pc = "sysGreet", !.need = 2]
    ELSE [now EXCEPT !.up = Append(@, SystemConnectRequest(now)), !.pc = "sysHttp"]

\* The connect callback of the first TCP connect.
Dialed(conn) ==
    IF ~Truthy(conn.sysUrl) THEN AfterConnectToHost(conn)
    ELSE IF IsSocksScheme(UrlScheme(conn.sysUrl))
    THEN [conn EXCEPT !.up = Append(@, SocksGreeting), !.pc = "sysGreet", !.need = 2]
    ELSE [conn EXCEPT !.up = Append(@, SystemConnectRequest(conn)), !.pc = "sysHttp"]

DialOk(c) ==
    /\ conns[c].pc = "dial"
    /\ SetConn(c, Dialed(conns[c]))

\* An "error" event while a promise with an error listener is pending; a
\* socket that emits "error" is destroyed.
DialFail(c) ==
    /\ conns[c].pc = "dial"
    /\ SetConn(c, Reject502([conns[c] EXCEPT !.upDestroyed = TRUE], "dial"))

(***************************************************************************)
(* The hops' answers during the handshakes.                                *)
(***************************************************************************)
\* A complete header block arrives on a socket waiting for an HTTP CONNECT
\* response: connectViaHttpConnect (system proxy) or connectViaProxy (per-key).
HttpAnswered(conn, resp) ==
    LET seen == IF StatusLineOk(resp) THEN [conn EXCEPT !.okHops = @ + 1]
                ELSE [conn EXCEPT !.fail = "status"]
    IN IF ~Includes200(resp) THEN Reject502(seen, "status")
       ELSE IF conn.pc = "sysHttp" THEN AfterConnectToHost(seen)
       ELSE Established(seen)

HopHttpResponse(c, resp) ==
    /\ conns[c].pc \in {"sysHttp", "keyHttp"}
    /\ ~conns[c].upEof
    /\ SetConn(c, HttpAnswered(conns[c], resp))

\* GreetingAnswered without the test of the chosen method
GreetingAnsweredAnyMethod(conn, g) ==
    IF g[1] # 5
    THEN Reject502([conn EXCEPT !.upDestroyed = TRUE], "greeting")
    ELSE [conn EXCEPT !.up = Append(@, SocksConnectRequest(conn)), !.pc = "sysReply",
                      !.need = 4, !.partial = FALSE]

\* connectViaSocks5: the 2 bytes read after the greeting
GreetingAnswered(conn, g) ==
    IF g[1] # 5 \/ g[2] # 0
    THEN Reject502([conn EXCEPT !.upDestroyed = TRUE], "greeting")
    ELSE [conn EXCEPT !.up = Append(@, SocksConnectRequest(conn)), !.pc = "sysReply",
                      !.need = 4, !.partial = FALSE]

HopGreeting(c, g) ==
    /\ conns[c].pc = "sysGreet"
    /\ ~conns[c].upEof
    /\ SetConn(c, GreetingAnswered(conns[c], g))

\* connectViaSocks5 returns its socket
SocksDone(conn, ok) ==
    AfterConnectToHost(IF ok THEN [conn EXCEPT !.okHops = @ + 1, !.need = 0]
                       ELSE [conn EXCEPT !.fail = "atype", !.need = 0])

\* connectViaSocks5: the 4 bytes ver, rep, rsv, atype of the connect reply
ReplyAnswered(conn, r) ==
    IF r[1] # 5 \/ r[2] # 0
    THEN Reject502([conn EXCEPT !.upDestroyed = TRUE], "reply")
    ELSE LET atype == r[4] IN
         IF atype = 1 THEN [conn EXCEPT !.pc = "sysDrain", !.need = 4 + 2, !.partial = FALSE]
         ELSE IF atype = 4 THEN [conn EXCEPT !.pc = "sysDrain", !.need = 16 + 2, !.partial = FALSE]
         ELSE IF atype = 3 THEN [conn EXCEPT !.pc = "sysDrainLen", !.need = 1, !.partial = FALSE]
         ELSE SocksDone(conn, FALSE)

HopReply(c, r) ==
    /\ conns[c].pc = "sysReply"
    /\ ~conns[c].upEof
    /\ SetConn(c, ReplyAnswered(conns[c], r))

\* the length prefix of a bound domain name: readBytes(socket, lenBuf[0] + 2) follows
HopBoundLen(c, n) ==
    /\ conns[c].pc = "sysDrainLen"
    /\ ~conns[c].upEof
    /\ SetConn(c, [conns[c] EXCEPT !.pc = "sysDrain", !.need = n + 2, !.partial = FALSE])

\* the rest of the bound address arrives
HopBound(c) ==
    /\ conns[c].pc = "sysDrain"
    /\ ~conns[c].upEof
    /\ SetConn(c, SocksDone(conns[c], TRUE))

\* A chunk that does not complete what the handshake is waiting for (no
\* blank line yet, or fewer than `need` bytes): the data listener returns.
HopPartial(c) ==
    /\ conns[c].pc \in HandshakeStates
    /\ ~conns[c].upEof
    /\ ~conns[c].partial
    /\ SetConn(c, [conns[c] EXCEPT !.partial = TRUE])

\* The hop closes its side: "end" and "close" are emitted, and no listener
\* of the pending handshake is registered for either.
HopEof(c) ==
    /\ conns[c].pc \in HandshakeStates
    /\ ~conns[c].upEof
    /\ SetConn(c, [conns[c] EXCEPT !.upEof = TRUE])

\* An "error" event on the upstream socket during a handshake.
HopError(c) ==
    /\ conns[c].pc \in HandshakeStates
    /\ ~conns[c].upEof
    /\ SetConn(c, Reject502([conns[c] EXCEPT !.upDestroyed = TRUE], "error"))

(***************************************************************************)
(* The tunnel: pipe() in both directions.                                  *)
(***************************************************************************)
\* A chunk written to a client socket that is already closed is dropped.
Copy(c) ==
    /\ conns[c].pc = "tunnel"
    /\ ~conns[c].clientDestroyed
    /\ conns[c].copied < MaxCopied
    /\ SetConn(c, [conns[c] EXCEPT !.copied = @ + 1])

\* the upstream socket ends: pipe() ends the client socket; a socket
\* without allowHalfOpen closes once its peer has ended
UpstreamEnd(c) ==
    /\ conns[c].pc = "tunnel"
    /\ SetConn(c, [conns[c] EXCEPT !.pc = "closed", !.clientEnded = TRUE,
                                   !.upDestroyed = TRUE])

\* ClientEnd without the end() that pipe() passes on to the upstream socket
ClientEndNotPassedOn(c) ==
    /\ conns[c].pc = "tunnel"
    /\ ~conns[c].clientDestroyed
    /\ SetConn(c, [conns[c] EXCEPT !.pc = "closed", !.clientDestroyed = TRUE])

\* the client socket ends: pipe() ends the upstream socket
ClientEnd(c) ==
    /\ conns[c].pc = "tunnel"
    /\ ~conns[c].clientDestroyed
    /\ SetConn(c, [conns[c] EXCEPT !.pc = "closed", !.upEnded = TRUE,
                                   !.clientDestroyed = TRUE])

\* "error" on the upstream socket of a tunnel: clientSocket.end()
UpstreamError(c) ==
    /\ conns[c].pc = "tunnel"
    /\ SetConn(c, [conns[c] EXCEPT !.pc = "closed", !.clientEnded = TRUE,
                                   !.upDestroyed = TRUE])

\* "error" on the client socket of a tunnel: proxySocket.end() / targetSocket.end()
ClientError(c) ==
    /\ conns[c].pc = "tunnel"
    /\ ~conns[c].clientDestroyed
    /\ SetConn(c, [conns[c] EXCEPT !.pc = "closed", !.upEnded = TRUE,
                                   !.clientDestroyed = TRUE])

\* The client's socket is reset while the router is still connecting
\* upstream: "error" and "close", no "end".  handleConnection listens for
\* "data" and "error" only, and the error listener only logs, so
\* handleConnect goes on as before.
ClientGone(c) ==
    /\ conns[c].pc \in WaitStates
    /\ ~conns[c].clientDestroyed
    /\ SetConn(c, [conns[c] EXCEPT !.clientDestroyed = TRUE])

\* The client ends its side while the router is still connecting upstream:
\* the flowing socket emits "end" and, without allowHalfOpen, closes.
ClientGoneFin(c) ==
    /\ conns[c].pc \in WaitStates
    /\ ~conns[c].clientDestroyed
    /\ SetConn(c, [conns[c] EXCEPT !.clientDestroyed = TRUE, !.clientEndEmitted = TRUE])

\* The client closes its socket after the router has ended its side.
ClientFin(c) ==
    /\ conns[c].pc = "closed"
    /\ conns[c].clientEnded
    /\ ~conns[c].clientDestroyed
    /\ SetConn(c, [conns[c] EXCEPT !.clientDestroyed = TRUE])

(***************************************************************************)
(* stop(): close the watcher, then server.close(callback).  The server     *)
(* stops accepting at once; its callback runs when every socket it has     *)
(* accepted is closed, and stop() returns after the callback.  Stop is the *)
(* call of stop() on a router that has been started.                       *)
(***************************************************************************)
ClientOpen(conn) == conn.pc # "idle" /\ ~conn.clientDestroyed

\* Stop leaving the config watcher open
StopKeepsWatcher ==
    /\ listening
    /\ stopPc = "no"
    /\ listening' = FALSE
    /\ stopPc' = "closing"
    /\ UNCHANGED <<config, watcher, nLoads, lastLoad, conns, sock, client, orphans, notified>>

Stop ==
    /\ listening
    /\ stopPc = "no"
    /\ watcher' = FALSE
    /\ listening' = FALSE
    /\ stopPc' = "closing"
    /\ UNCHANGED <<config, nLoads, lastLoad, conns, sock, client, orphans, notified>>

StopDone ==
    /\ stopPc = "closing"
    /\ \A c \in DOMAIN conns : ~ClientOpen(conns[c])
    /\ stopPc' = "done"
    /\ UNCHANGED <<config, watcher, listening, nLoads, lastLoad, conns, sock, client, orphans, notified>>

Next ==
    \/ \E in \in LoadInputs : Start(in[1], in[2], in[3])
    \/ \E in \in ReloadInputs : ChangeEvent(in[1], in[2], in[3])
    \/ \E c \in ConnIds : Accept(c)
    \/ \E c \in ConnIds, req \in Requests : ClientRequest(c, req)
    \/ \E c \in ConnIds : ClientPartial(c)
    \/ \E c \in ConnIds : ClientLate(c)
    \/ \E c \in ConnIds : DialOk(c)
    \/ \E c \in ConnIds : DialFail(c)
    \/ \E c \in ConnIds, resp \in HttpResponses : HopHttpResponse(c, resp)
    \/ \E c \in ConnIds, g \in GreetingReplies : HopGreeting(c, g)
    \/ \E c \in ConnIds, r \in ConnectReplies : HopReply(c, r)
    \/ \E c \in ConnIds, n \in DomainLens : HopBoundLen(c, n)
    \/ \E c \in ConnIds : HopBound(c)
    \/ \E c \in ConnIds : HopPartial(c)
    \/ \E c \in ConnIds : HopEof(c)
    \/ \E c \in ConnIds : HopError(c)
    \/ \E c \in ConnIds : Copy(c)
    \/ \E c \in ConnIds : UpstreamEnd(c)
    \/ \E c \in ConnIds : ClientEnd(c)

Spec == Init /\ [][Next]_vars

(***************************************************************************)
(* The SOCKS5 socket byte by byte.  The proxy's bytes arrive in chunks of  *)
(* any size.  readBytes removes its "data" listener and calls unshift in   *)
(* the same callback; removing a listener does not pause the stream, and   *)
(* the next listener is attached only when the awaiting code resumes.      *)
(* What the stream does with the bytes given back in between is not fixed  *)
(* by the code: it keeps them for the next listener, or it flows before    *)
(* the listener is attached and emits them to nobody.                      *)
(***************************************************************************)
InitSocks ==
    /\ config = NullConfig
    /\ watcher = FALSE
    /\ listening = FALSE
    /\ nLoads = 0
    /\ lastLoad = "none"
    /\ conns = [c \in ConnIds |-> NewConn]
    /\ sock \in { StartSock(reply) : reply \in SocksReplies }
    /\ client = IdleClient
    /\ orphans = NoOrphans
    /\ notified = <<>>
    /\ stopPc = "no"

SetSock(s) ==
    /\ sock' = s
    /\ UNCHANGED <<config, watcher, listening, nLoads, lastLoad, conns, client, orphans, notified, stopPc>>

\* the next k bytes of the proxy arrive in one read
SockChunk(k) ==
    /\ sock.stage \in {"reply", "len", "drain", "tunnel"}
    /\ sock.rbuf = <<>>
    /\ k \in 1..Len(sock.wire)
    /\ SetSock(SockData([sock EXCEPT !.wire = SubSeq(@, k + 1, Len(@))],
                        SubSeq(sock.wire, 1, k)))

\* the bytes given back reach the listener attached next
SockUnshiftKept ==
    /\ sock.rbuf # <<>>
    /\ SetSock(SockData([sock EXCEPT !.rbuf = <<>>], sock.rbuf))

\* the stream flows while no listener is attached
SockUnshiftLost ==
    /\ sock.rbuf # <<>>
    /\ SetSock([sock EXCEPT !.rbuf = <<>>])

NextSocks ==
    \/ \E k \in 1..(Len(Payload) + 22) : SockChunk(k)
    \/ SockUnshiftKept
    \/ SockUnshiftLost

SpecSocks == InitSocks /\ [][NextSocks]_vars

(***************************************************************************)
(* The client socket read by read: every stream of ClientStreams, split    *)
(* into reads in every way, with the upstream handshake ending at any      *)
(* moment after the request was accepted.                                  *)
(***************************************************************************)
InitClient ==
    /\ config = NullConfig
    /\ watcher = FALSE
    /\ listening = FALSE
    /\ nLoads = 0
    /\ lastLoad = "none"
    /\ conns = [c \in ConnIds |-> NewConn]
    /\ sock = IdleSock
    /\ client \in { StartClient(stream) : stream \in ClientStreams }
    /\ orphans = NoOrphans
    /\ notified = <<>>
    /\ stopPc = "no"

SetClient(s) ==
    /\ client' = s
    /\ UNCHANGED <<config, watcher, listening, nLoads, lastLoad, conns, sock, orphans, notified, stopPc>>

\* the next k pieces of the client arrive in one read
ClientChunk(k) ==
    /\ client.stage # "idle"
    /\ k \in 1..Len(client.wire)
    /\ SetClient(ClientData([client EXCEPT !.wire = SubSeq(@, k + 1, Len(@))],
                            SubSeq(client.wire, 1, k)))

\* connectViaProxy / connectDirect after the handshakes: the 200 is written
\* and the client socket is piped to the upstream socket
ClientEstablished ==
    /\ client.stage = "connecting"
    /\ SetClient([client EXCEPT !.stage = "tunnel", !.status = Append(@, "200")])

\* handleConnect's catch block
ClientRefused ==
    /\ client.stage = "connecting"
    /\ SetClient([client EXCEPT !.stage = "closed", !.status = Append(@, "502")])

NextClient ==
    \/ \E k \in 1..(Len(HeaderEnd) + 7) : ClientChunk(k)
    \/ ClientEstablished
    \/ ClientRefused

SpecClient == InitClient /\ [][NextClient]_vars

(***************************************************************************)
(* The HTTP CONNECT response byte by byte: every header block of           *)
(* HttpReplies followed by Payload, split into reads in every way.         *)
(***************************************************************************)
InitHttp ==
    /\ config = NullConfig
    /\ watcher = FALSE
    /\ listening = FALSE
    /\ nLoads = 0
    /\ lastLoad = "none"
    /\ conns = [c \in ConnIds |-> NewConn]
    /\ sock \in { StartHttp(reply) : reply \in HttpReplies }
    /\ client = IdleClient
    /\ orphans = NoOrphans
    /\ notified = <<>>
    /\ stopPc = "no"

\* the next k bytes of the hop arrive in one read
HttpChunk(k) ==
    /\ sock.stage \in {"http", "tunnel", "failed"}
    /\ k \in 1..Len(sock.wire)
    /\ SetSock(HttpData([sock EXCEPT !.wire = SubSeq(@, k + 1, Len(@))],
                        SubSeq(sock.wire, 1, k)))

NextHttp == \E k \in 1..(Len(Payload) + 12) : HttpChunk(k)

SpecHttp == InitHttp /\ [][NextHttp]_vars

(***************************************************************************)
(* The SOCKS5 connect request: every host length of HostBufLens and every  *)
(* port of RequestPorts.                                                   *)
(***************************************************************************)
InitRequest ==
    /\ config = NullConfig
    /\ watcher = FALSE
    /\ listening = FALSE
    /\ nLoads = 0
    /\ lastLoad = "none"
    /\ conns = [c \in ConnIds |-> NewConn]
    /\ sock \in { StartRequest(HostBuf(n), p) : n \in HostBufLens, p \in RequestPorts }
    /\ client = IdleClient
    /\ orphans = NoOrphans
    /\ notified = <<>>
    /\ stopPc = "no"

SockWriteRequest ==
    /\ sock.stage = "greeted"
    /\ SetSock(RequestWritten(sock))

NextRequest == SockWriteRequest

SpecRequest == InitRequest /\ [][NextRequest]_vars

(***************************************************************************)
(* start() and stop() called in any order on a router without client       *)
(* sockets.  start() assigns this.configWatcher and this.server without    *)
(* looking at what they hold; listen fails when the port is taken, as it   *)
(* is while a server of this router listens on it.                         *)
(***************************************************************************)
StartCall(content, parsed, observerThrows, bindOk) ==
    /\ nLoads < MaxLoads
    /\ bindOk => ~listening /\ orphans.listeners = 0
    /\ config' = loadConfig(content, parsed, observerThrows)
    /\ lastLoad' = loadOutcome(content, observerThrows)
    /\ notified' = observerCalls(content, parsed)
    /\ nLoads' = nLoads + 1
    /\ watcher' = (content # "missing" \/ watcher)
    /\ listening' = bindOk
    /\ orphans' = [watchers  |-> orphans.watchers
                                   + (IF watcher /\ content # "missing" THEN 1 ELSE 0),
                   listeners |-> orphans.listeners + (IF listening THEN 1 ELSE 0)]
    /\ stopPc' = "no"
    /\ UNCHANGED <<conns, sock, client>>

\* stop(), whole: with no client socket open the callback of server.close
\* comes at once, also for a server that is not listening
StopCall ==
    /\ stopPc = "no"
    /\ watcher' = FALSE
    /\ listening' = FALSE
    /\ stopPc' = "done"
    /\ UNCHANGED <<config, nLoads, lastLoad, conns, sock, client, orphans, notified>>

NextStartStop ==
    \/ \E in \in LoadInputs, bindOk \in BOOLEAN : StartCall(in[1], in[2], in[3], bindOk)
    \/ StopCall

SpecStartStop == Init /\ [][NextStartStop]_vars

(***************************************************************************)
(* The life of connections and of the router: two client sockets, the      *)
(* clients' and hops' closes and errors, and stop().  The snapshots are    *)
(* two: a system proxy over HTTP with a per-key proxy behind it, and a     *)
(* SOCKS5 system proxy alone.                                              *)
(***************************************************************************)
LifeConnIds == {"c1", "c2"}

LifeConfigs ==
    { p \in ProxyRouterConfig :
        \/ /\ p.systemProxy = Url("http", "su", "sp", "sysproxy", 3128)
           /\ p.activeKeys = [x \in Providers |-> "key1"]
           /\ p.keyProxies = [x \in {"key1"} |-> Url("http", "u", "p", "proxyhost", 8080)]
        \/ /\ p.systemProxy = Url("socks5", "", "", "sysproxy", 1080)
           /\ p.activeKeys = EmptyMap
           /\ p.keyProxies = EmptyUrlMap }

LifeLoadInputs ==
    { <<"missing", NullConfig, FALSE>> } \cup { <<"valid", p, FALSE>> : p \in LifeConfigs }

LifeRequests == { Request("CONNECT", "api.example.com", <<443>>), Request("GET", "", <<>>) }

LifeHttpResponses ==
    { <<"HTTP/1.1 200 Connection established">>,
      <<"HTTP/1.1 407 Proxy Authentication Required">> }

LifeGreetingReplies == { <<5, 0>>, <<5, 2>> }

LifeConnectReplies == { <<5, 0, 0, 1>>, <<5, 1, 0, 1>> }

InitLife ==
    /\ config = NullConfig
    /\ watcher = FALSE
    /\ listening = FALSE
    /\ nLoads = 0
    /\ lastLoad = "none"
    /\ conns = [c \in LifeConnIds |-> NewConn]
    /\ sock = IdleSock
    /\ client = IdleClient
    /\ orphans = NoOrphans
    /\ notified = <<>>
    /\ stopPc = "no"

NextLife ==
    \/ \E in \in LifeLoadInputs : Start(in[1], in[2], in[3])
    \/ \E in \in LifeLoadInputs : ChangeEvent(in[1], in[2], in[3])
    \/ Stop
    \/ StopDone
    \/ \E c \in LifeConnIds : Accept(c)
    \/ \E c \in LifeConnIds, req \in LifeRequests : ClientRequest(c, req)
    \/ \E c \in LifeConnIds : ClientLate(c)
    \/ \E c \in LifeConnIds : ClientGone(c)
    \/ \E c \in LifeConnIds : ClientGoneFin(c)
    \/ \E c \in LifeConnIds : ClientFin(c)
    \/ \E c \in LifeConnIds : DialOk(c)
    \/ \E c \in LifeConnIds : DialFail(c)
    \/ \E c \in LifeConnIds, resp \in LifeHttpResponses : HopHttpResponse(c, resp)
    \/ \E c \in LifeConnIds, g \in LifeGreetingReplies : HopGreeting(c, g)
    \/ \E c \in LifeConnIds, r \in LifeConnectReplies : HopReply(c, r)
    \/ \E c \in LifeConnIds : HopBound(c)
    \/ \E c \in LifeConnIds : HopError(c)
    \/ \E c \in LifeConnIds : Copy(c)
    \/ \E c \in LifeConnIds : UpstreamEnd(c)
    \/ \E c \in LifeConnIds : ClientEnd(c)
    \/ \E c \in LifeConnIds : UpstreamError(c)
    \/ \E c \in LifeConnIds : ClientError(c)

SpecLife == InitLife /\ [][NextLife]_vars

(***************************************************************************)
(* Vocabulary of the properties.                                           *)
(***************************************************************************)
Conn(c) == conns[c]

\* the lookup chain of the routing table: H -> P -> K -> U
HasChain(cfg, h, p, k, u) ==
    /\ cfg.loaded
    /\ h \in DOMAIN cfg.domainToProvider /\ cfg.domainToProvider[h] = p
    /\ p \in DOMAIN cfg.activeKeys /\ cfg.activeKeys[p] = k
    /\ k \in DOMAIN cfg.keyProxies /\ cfg.keyProxies[k] = u

ChainBroken(cfg, h) ==
    \/ h \notin DOMAIN cfg.domainToProvider
    \/ cfg.domainToProvider[h] \notin DOMAIN cfg.activeKeys
    \/ cfg.activeKeys[cfg.domainToProvider[h]] \notin DOMAIN cfg.keyProxies
    \/ cfg.keyProxies[cfg.activeKeys[cfg.domainToProvider[h]]] = NullUrl

\* this step is the one in which connection c resolves its route
ResolvesRoute(c) == conns[c].pc = "parsing" /\ conns'[c].pc = "dial"

\* the address a proxy URL is written with
WrittenAddr(url) == <<url.host, url.port>>

\* the hops of a connection's plan, outermost first
PlanUrls(conn) ==
    (IF conn.sysUrl # NullUrl THEN <<conn.sysUrl>> ELSE <<>>)
    \o (IF conn.keyUrl # NullUrl THEN <<conn.keyUrl>> ELSE <<>>)

\* the addresses of the plan, the target innermost
PlanAddrs(conn) ==
    [i \in 1..Len(PlanUrls(conn)) |-> WrittenAddr(PlanUrls(conn)[i])] \o <<<<conn.host, conn.port>>>>

NamesAddress(e) == e.op \in {"dial", "connect", "socksreq"}

\* the addresses the router dialed or named in a handshake, in order
NamedAddrs(conn) ==
    LET named == SelectSeq(conn.up, NamesAddress)
    IN [i \in 1..Len(named) |-> <<named[i].host, named[i].port>>]

\* the URL of the hop an upstream write is addressed to
HopUrl(conn, e) == IF e.to = "system" THEN conn.sysUrl ELSE conn.keyUrl

Sent(conn, line) == \E i \in 1..Len(conn.down) : conn.down[i] = line

(***************************************************************************)
(* C1. A reload that reads malformed JSON keeps the previous snapshot:     *)
(* resolveProxy and the system proxy read by connectToHost are, for every  *)
(* host, what they were before the failed load.                            *)
(***************************************************************************)
C1_MalformedReloadKeepsSnapshot ==
    [][ (nLoads >= 1 /\ nLoads' = nLoads + 1 /\ lastLoad' = "malformed")
        => /\ \A h \in Hosts : resolveProxy(config', h) = resolveProxy(config, h)
           /\ systemProxyOf(config') = systemProxyOf(config) ]_vars

(***************************************************************************)
(* C2. Whenever a connection resolves its route for host H under a         *)
(* snapshot with domainToProvider[H] = P, activeKeys[P] = K and            *)
(* keyProxies[K] = U, U not null, the per-key hop of its plan is U.        *)
(***************************************************************************)
C2_ChainYieldsKeyHop ==
    [][ \A c \in ConnIds : ResolvesRoute(c) =>
          \A p \in Providers, k \in Keys, u \in KeyUrls :
             HasChain(config, conns'[c].host, p, k, u) => conns'[c].keyUrl = u ]_vars

C2_Witness ==
    \E c \in ConnIds, p \in Providers, k \in Keys, u \in KeyUrls :
       /\ Conn(c).pc = "dial"
       /\ HasChain(config, Conn(c).host, p, k, u)
       /\ Conn(c).keyUrl = u

C4_HopsInPlanOrder ==
    \A c \in ConnIds :
       LET named == NamedAddrs(Conn(c))
           plan == PlanAddrs(Conn(c))
       IN /\ Len(named) <= Len(plan)
          /\ \A i \in 1..Len(named) : named[i] = plan[i]
          /\ Conn(c).pc = "tunnel" => Len(named) = Len(plan)

(***************************************************************************)
(* C5. The handshake spoken to a hop is chosen by the scheme of the hop's  *)
(* URL: SOCKS5 for socks5/socks, HTTP CONNECT for http/https, for the      *)
(* system proxy and for the per-key proxy alike.                           *)
(***************************************************************************)
C5_ProtocolByScheme ==
    \A c \in ConnIds : \A i \in 1..Len(Conn(c).up) :
       LET e == Conn(c).up[i] IN
       /\ e.op = "connect" => HopUrl(Conn(c), e).scheme \in {"http", "https"}
       /\ e.op \in {"greeting", "socksreq"} => HopUrl(Conn(c), e).scheme \in {"socks5", "socks"}

(***************************************************************************)
(* C6. An HTTP CONNECT request carries Proxy-Authorization: Basic          *)
(* base64(user:pass) exactly when the URL of the hop it is written to      *)
(* carries credentials, for the system proxy and the per-key proxy alike.  *)
(***************************************************************************)
C6_AuthHeaderIffCredentials ==
    \A c \in ConnIds : \A i \in 1..Len(Conn(c).up) :
       LET e == Conn(c).up[i]
           hop == HopUrl(Conn(c), e)
       IN e.op = "connect" =>
             e.auth = (IF hop.user # "" THEN BasicAuth(hop.user, hop.pass) ELSE NoAuth)

(***************************************************************************)
(* C7. The 200 line is written to the client only after the handshake of   *)
(* every hop of the plan has succeeded, and no chunk is copied before it.  *)
(***************************************************************************)
C7_EstablishedAfterAllHops ==
    \A c \in ConnIds :
       /\ Sent(Conn(c), "200") => Conn(c).okHops = Len(PlanUrls(Conn(c)))
       /\ Conn(c).copied > 0 => Sent(Conn(c), "200")

(***************************************************************************)
(* C8. When a step of the upstream chain fails (TCP dial failure, SOCKS5   *)
(* greeting or reply failure, non-success HTTP CONNECT response), the      *)
(* client is sent 502, its socket is closed, and no 200 is sent.           *)
(***************************************************************************)
C8_FailedStepGets502 ==
    \A c \in ConnIds :
       Conn(c).fail \in {"dial", "greeting", "reply", "status"}
          => Conn(c).down = <<"502">> /\ Conn(c).clientEnded /\ Conn(c).pc = "closed"

(***************************************************************************)
(* C9. A hop that closes its connection in the middle of a handshake does  *)
(* not leave the connection waiting forever: a connection whose hop has    *)
(* closed and that can take no further step has been sent 502 and is       *)
(* closed.                                                                 *)
(***************************************************************************)
ConnStep(c) ==
    \/ \E resp \in HttpResponses : HopHttpResponse(c, resp)
    \/ \E g \in GreetingReplies : HopGreeting(c, g)
    \/ \E r \in ConnectReplies : HopReply(c, r)
    \/ \E n \in DomainLens : HopBoundLen(c, n)
    \/ HopBound(c) \/ HopPartial(c) \/ HopError(c)
    \/ DialOk(c) \/ DialFail(c)
    \/ Copy(c) \/ UpstreamEnd(c) \/ ClientEnd(c)

C9_HopEofGets502 ==
    \A c \in ConnIds :
       (Conn(c).upEof /\ ~ENABLED ConnStep(c))
          => Sent(Conn(c), "502") /\ Conn(c).pc = "closed"

(***************************************************************************)
(* C10. A SOCKS5 connect reply whose address type is none of 1, 3, 4 makes *)
(* the handshake fail: the client gets 502 and no tunnel is established.   *)
(***************************************************************************)
C10_BadAtypeGets502 ==
    \A c \in ConnIds :
       Conn(c).fail = "atype"
          => Conn(c).down = <<"502">> /\ Conn(c).pc = "closed"

(***************************************************************************)
(* C11. When connectViaSocks5 has returned its socket, the bytes it        *)
(* consumed are exactly the connect reply (4 + 6, 4 + 18 or 4 + 1 + N + 2  *)
(* bytes), however the proxy's bytes were split into reads, and the bytes  *)
(* after the reply reach the client unchanged and in order: what has been  *)
(* written is a prefix of them, and all of them once nothing is pending.   *)
(***************************************************************************)
IsPrefix(a, b) == Len(a) <= Len(b) /\ a = SubSeq(b, 1, Len(a))

C11_ReplyDrainedExactly ==
    sock.stage = "tunnel" /\ sock.reply[4] \in {1, 3, 4} =>
        /\ sock.eaten = sock.reply
        /\ IsPrefix(sock.out, Payload)
        /\ (sock.wire = <<>> /\ sock.rbuf = <<>> => sock.out = Payload)

(***************************************************************************)
(* C12. The SOCKS5 handshake goes on past the greeting only if the 2-byte  *)
(* greeting reply is [5, 0], and past the connect reply only if its reply  *)
(* code is 0.  Any other greeting reply fails the connection without the   *)
(* connect request being written, any other reply code fails it, and a     *)
(* connection failed in either way never writes again and never becomes a  *)
(* tunnel.                                                                 *)
(***************************************************************************)
WroteSocksRequest(conn) == \E i \in 1..Len(conn.up) : conn.up[i].op = "socksreq"

SocksFailed(conn) ==
    /\ conn.pc = "closed"
    /\ conn.fail \in {"greeting", "reply"}
    /\ Sent(conn, "502")
    /\ ~Sent(conn, "200")
    /\ conn.upDestroyed

C12_SocksNeedsGoodGreetingAndReply ==
    [][ \A c \in ConnIds :
          /\ conns[c].pc = "sysGreet" =>
                /\ \A g \in GreetingReplies :
                      HopGreeting(c, g) /\ g # <<5, 0>> =>
                          SocksFailed(conns'[c]) /\ ~WroteSocksRequest(conns'[c])
                /\ conns'[c].pc \notin {"sysGreet", "closed"} => HopGreeting(c, <<5, 0>>)
          /\ conns[c].pc = "sysReply" =>
                /\ \A r \in ConnectReplies :
                      HopReply(c, r) /\ r[2] # 0 => SocksFailed(conns'[c])
                /\ conns'[c].pc \notin {"sysReply", "closed"}
                      => \E r \in ConnectReplies : r[2] = 0 /\ HopReply(c, r)
          /\ SocksFailed(conns[c]) => conns'[c] = conns[c] ]_vars

C12_Witness ==
    \E c \in ConnIds :
       /\ SocksFailed(Conn(c))
       /\ Conn(c).fail = "greeting"
       /\ ~WroteSocksRequest(Conn(c))

(***************************************************************************)
(* C13. An HTTP CONNECT hop goes on only if the status line of its         *)
(* response indicates success: a step that reads a response whose status   *)
(* line carries another code fails the connection with 502, and a step     *)
(* that leaves the wait for the response for anything but closed has read  *)
(* a success status line, whatever the other header lines are.             *)
(***************************************************************************)
C13_HttpHopJudgedByStatusLine ==
    [][ \A c \in ConnIds :
          /\ \A resp \in HttpResponses :
                HopHttpResponse(c, resp) /\ ~StatusLineOk(resp) =>
                    /\ conns'[c].pc = "closed"
                    /\ Sent(conns'[c], "502")
                    /\ ~Sent(conns'[c], "200")
          /\ (conns[c].pc \in {"sysHttp", "keyHttp"} /\ conns'[c].pc \notin {conns[c].pc, "closed"})
                => \E resp \in HttpResponses : StatusLineOk(resp) /\ HopHttpResponse(c, resp) ]_vars

(***************************************************************************)
(* C14. A client whose request line was answered 400 has been sent exactly *)
(* one 400 and nothing else, its socket is closed, and the router has      *)
(* handled no read of that client since.                                   *)
(***************************************************************************)
C14_NoReadsAfter400 ==
    \A c \in ConnIds :
       Sent(Conn(c), "400") =>
          /\ Conn(c).down = <<"400">>
          /\ Conn(c).clientEnded
          /\ Conn(c).pc = "closed"
          /\ Conn(c).late = 0

(***************************************************************************)
(* C15. A request is routed if and only if its first line has the method   *)
(* CONNECT and a host:port with a port made of digits.  Any other request  *)
(* is answered 400, and a connection answered 400 has resolved no route    *)
(* and written to or dialled no upstream socket, then or later.            *)
(***************************************************************************)
IsConnectHostPort(req) == req.method = "CONNECT" /\ req.host # "" /\ req.port # <<>>

NeverRouted(conn) ==
    /\ conn.up = <<>>
    /\ conn.keyUrl = NullUrl
    /\ conn.sysUrl = NullUrl
    /\ conn.pc = "closed"

C15_RoutedIffConnectHostPort ==
    [][ \A c \in ConnIds :
          /\ \A req \in Requests :
                ClientRequest(c, req) =>
                   IF IsConnectHostPort(req)
                   THEN conns'[c].pc = "dial" /\ conns'[c].host = req.host
                   ELSE Sent(conns'[c], "400") /\ NeverRouted(conns'[c])
          /\ Sent(conns[c], "400") => NeverRouted(conns'[c]) ]_vars

(***************************************************************************)
(* C16. The bytes buffered for a client that has not sent the header       *)
(* terminator stay below a fixed maximum: here, below the number of reads  *)
(* without a terminator that a client of the model can send.               *)
(***************************************************************************)
C16_HeaderBufferBounded ==
    \A c \in ConnIds :
       Conn(c).pc = "parsing" => Conn(c).buffered < MaxBuffered

(***************************************************************************)
(* C17. Once a connection's route is resolved its plan is fixed: no step,  *)
(* a reload of the config included, changes the target, the per-key hop or *)
(* the system hop of the connection, what it did upstream stays done, and  *)
(* every address it dials or names afterwards is a host of that plan.      *)
(***************************************************************************)
RouteResolved(conn) == conn.pc \notin {"idle", "parsing"}

Plan(conn) == <<conn.host, conn.port, conn.keyUrl, conn.sysUrl>>

PlanHosts(conn) ==
    {conn.host}
      \cup (IF Truthy(conn.keyUrl) THEN {UrlHostname(conn.keyUrl)} ELSE {})
      \cup (IF Truthy(conn.sysUrl) THEN {UrlHostname(conn.sysUrl)} ELSE {})

C17_PlanFixedOnceResolved ==
    [][ conns' # conns =>
          \A c \in ConnIds :
             (RouteResolved(conns[c]) /\ conns'[c] # conns[c]) =>
                /\ config' = config
                /\ Plan(conns'[c]) = Plan(conns[c])
                /\ IsPrefix(conns[c].up, conns'[c].up)
                /\ \A i \in (Len(conns[c].up) + 1)..Len(conns'[c].up) :
                      NamesAddress(conns'[c].up[i]) =>
                          conns'[c].up[i].host \in PlanHosts(conns[c]) ]_vars

C17_Witness ==
    \E c \in ConnIds :
       /\ Conn(c).pc = "tunnel"
       /\ lastLoad = "ok"
       /\ Conn(c).sysUrl # config.systemProxy
       /\ Conn(c).sysUrl # NullUrl
       /\ config.systemProxy # NullUrl

(***************************************************************************)
(* C18. The per-key hop and the system hop of a connection are decided     *)
(* from one snapshot: in the step that resolves the route, the per-key hop *)
(* is what the chain domainToProvider, activeKeys, keyProxies of the       *)
(* current snapshot gives, the system hop is the systemProxy of that same  *)
(* snapshot, and the snapshot does not change within the step.             *)
(***************************************************************************)
C18_OneSnapshotPerResolution ==
    [][ \A c \in ConnIds : ResolvesRoute(c) =>
          /\ config' = config
          /\ conns'[c].sysUrl = config.systemProxy
          /\ \A p \in Providers, k \in Keys, u \in KeyUrls :
                HasChain(config, conns'[c].host, p, k, u) => conns'[c].keyUrl = u
          /\ ChainBroken(config, conns'[c].host) => conns'[c].keyUrl = NullUrl ]_vars

C18_Witness ==
    \E c \in ConnIds :
       /\ Conn(c).pc = "dial"
       /\ nLoads = MaxLoads
       /\ lastLoad = "ok"
       /\ Conn(c).keyUrl # NullUrl
       /\ Conn(c).sysUrl # NullUrl
       /\ Conn(c).sysUrl = config.systemProxy

(***************************************************************************)
(* C19. When the config file does not exist at startup the snapshot is     *)
(* null and every connection goes by plain TCP to its target: it has no    *)
(* per-key hop and no system hop, and all it does upstream is dial the     *)
(* target.                                                                 *)
(***************************************************************************)
StartedWithoutFile == nLoads = 1 /\ lastLoad = "missing"

C19_NoFileMeansDirect ==
    StartedWithoutFile =>
       /\ config = NullConfig
       /\ \A c \in ConnIds :
             /\ Conn(c).keyUrl = NullUrl
             /\ Conn(c).sysUrl = NullUrl
             /\ \A i \in 1..Len(Conn(c).up) :
                   Conn(c).up[i] = Ev("dial", "target", Conn(c).host, Conn(c).port, NoAuth)

C19_Witness ==
    /\ StartedWithoutFile
    /\ \E c \in ConnIds :
          /\ Conn(c).pc = "tunnel"
          /\ Conn(c).up = <<Ev("dial", "target", Conn(c).host, Conn(c).port, NoAuth)>>
          /\ Conn(c).down = <<"200">>

(***************************************************************************)
(* C20. A change event on a config file with valid content replaces the    *)
(* snapshot by the newly parsed config, and a route resolved while that    *)
(* load is the latest one is resolved by it.                               *)
(***************************************************************************)
C20_ValidChangeReplacesSnapshot ==
    [][ /\ \A in \in LoadInputs :
              in[1] = "valid" /\ ChangeEvent(in[1], in[2], in[3]) => config' = in[2]
        /\ \A c \in ConnIds :
              (ResolvesRoute(c) /\ lastLoad \in {"ok", "observer-threw"} /\ nLoads > 1)
                 => config.loaded /\ conns'[c].sysUrl = config.systemProxy ]_vars

(***************************************************************************)
(* C21. Once start() has completed the config watcher is attached, also    *)
(* when the config file did not exist when start() was called: a router    *)
(* that is listening has a watcher, so that a later write of the file can  *)
(* reach loadConfig at all.                                                *)
(***************************************************************************)
C21_StartedMeansWatching ==
    listening => watcher

(***************************************************************************)
(* C22. The reload observer is called once for each load of a file that    *)
(* exists and parses, with the snapshot the router holds at that moment,   *)
(* and is not called for a load that finds the file missing or malformed;  *)
(* when the observer returns, the router holds the snapshot it was given.  *)
(***************************************************************************)
IsLoadStep == nLoads' = nLoads + 1

C22_ObserverOncePerGoodLoad ==
    [][ IsLoadStep =>
          /\ lastLoad' \in {"missing", "malformed"} => notified' = <<>>
          /\ lastLoad' \in {"ok", "observer-threw"} =>
                Len(notified') = 1 /\ notified'[1] \in ProxyRouterConfig
          /\ lastLoad' = "ok" => notified' = <<config'>> ]_vars

C22_Witness ==
    /\ nLoads = MaxLoads
    /\ lastLoad = "ok"
    /\ notified = <<config>>
    /\ config.systemProxy # NullUrl

(***************************************************************************)
(* C23. stop() closes the listener and the watcher and nothing else: from  *)
(* the call on no connection is accepted and no load happens, the call and *)
(* its completion change no connection, and a tunnel that is open goes on  *)
(* copying until one of its endpoints closes.                              *)
(***************************************************************************)
C23_StopClosesListenerAndWatcherOnly ==
    [][ /\ stopPc' # "no" => ~listening' /\ ~watcher'
        /\ stopPc # "no" =>
              /\ config' = config /\ nLoads' = nLoads
              /\ \A c \in DOMAIN conns : conns[c].pc = "idle" => conns'[c].pc = "idle"
        /\ stopPc' # stopPc => conns' = conns
        /\ stopPc # "no" =>
              \A c \in DOMAIN conns :
                 (/\ conns[c].pc = "tunnel"
                  /\ ~conns[c].clientDestroyed
                  /\ conns[c].copied < MaxCopied) => ENABLED Copy(c) ]_vars

C23_Witness ==
    /\ stopPc = "closing"
    /\ \E c \in DOMAIN conns : conns[c].pc = "tunnel" /\ conns[c].copied = MaxCopied
    /\ \E c \in DOMAIN conns : conns[c].pc = "idle"

(***************************************************************************)
(* C24. The completion of stop() does not wait for tunnels: when stop()    *)
(* has closed the listener and the watcher and every client socket still   *)
(* open belongs to an established tunnel, stop() can complete.             *)
(***************************************************************************)
C24_StopDoesNotWaitForTunnels ==
    (/\ stopPc = "closing"
     /\ \A c \in DOMAIN conns : ClientOpen(conns[c]) => conns[c].pc = "tunnel")
        => ENABLED StopDone

(***************************************************************************)
(* C25. When an established tunnel leaves TUNNEL_ESTABLISHED, because      *)
(* either socket reached end-of-stream or emitted an error, it is CLOSED   *)
(* and both of its sockets are closed or have been ended by the router:    *)
(* the close of one side is passed on to the other in the same step.       *)
(***************************************************************************)
ClientSideClosed(conn) == conn.clientEnded \/ conn.clientDestroyed

UpstreamSideClosed(conn) == conn.upEnded \/ conn.upDestroyed

C25_TunnelCloseIsPassedOn ==
    [][ \A c \in DOMAIN conns :
          (conns[c].pc = "tunnel" /\ conns'[c].pc # "tunnel") =>
             /\ conns'[c].pc = "closed"
             /\ ClientSideClosed(conns'[c])
             /\ UpstreamSideClosed(conns'[c]) ]_vars

C25_Witness ==
    \E c \in DOMAIN conns :
       /\ conns[c].pc = "closed"
       /\ Sent(conns[c], "200")
       /\ conns[c].clientDestroyed
       /\ conns[c].upEnded
       /\ ~conns[c].upDestroyed

(***************************************************************************)
(* C26. A connection whose handshake chain failed (the client was sent     *)
(* 502) has its upstream socket closed too, whichever kind of hop refused. *)
(***************************************************************************)
C26_FailedHandshakeClosesUpstream ==
    \A c \in DOMAIN conns :
       Sent(conns[c], "502") => UpstreamSideClosed(conns[c])

(***************************************************************************)
(* C27. A connection's state only advances along accepted/parsing, route   *)
(* resolved and connecting upstream, tunnel established, closed; and once  *)
(* a connection is closed, by the router or by the client closing its      *)
(* socket during the upstream handshake, it stays closed and the router    *)
(* writes no handshake, writes no status line and copies no byte for it.   *)
(***************************************************************************)
StateOrder(pc) ==
    CASE pc = "idle" -> 0
      [] pc = "parsing" -> 1
      [] pc = "dial" -> 2
      [] pc \in HandshakeStates -> 3
      [] pc = "tunnel" -> 4
      [] pc = "closed" -> 5

ConnClosed(conn) == conn.pc = "closed" \/ conn.clientDestroyed

C27_StatesAdvanceAndClosedIsTerminal ==
    [][ \A c \in DOMAIN conns :
          /\ StateOrder(conns'[c].pc) >= StateOrder(conns[c].pc)
          /\ ConnClosed(conns[c]) =>
                /\ ConnClosed(conns'[c])
                /\ conns'[c].up = conns[c].up
                /\ conns'[c].down = conns[c].down
                /\ conns'[c].copied = conns[c].copied ]_vars

(***************************************************************************)
(* C28. One upstream socket per connection: the router dials once, to the  *)
(* first hop of the plan (to the target when the plan has no hop), and     *)
(* handshakes with the hops in plan order, once each, every handshake      *)
(* naming the next hop of the plan and the last one the target.  A hop is  *)
(* identified here by its host name; the port it is reached at is the      *)
(* matter of C4 and C31.                                                   *)
(***************************************************************************)
PlanKinds(conn) ==
    (IF conn.sysUrl # NullUrl THEN <<"system">> ELSE <<>>)
    \o (IF conn.keyUrl # NullUrl THEN <<"key">> ELSE <<>>)
    \o <<"target">>

HopName(conn, kind) ==
    CASE kind = "system" -> <<conn.sysUrl.host>>
      [] kind = "key" -> <<conn.keyUrl.host>>
      [] kind = "target" -> <<conn.host, conn.port>>

EventName(e, kind) == IF kind = "target" THEN <<e.host, e.port>> ELSE <<e.host>>

Failed(conn) == Sent(conn, "400") \/ Sent(conn, "502")

C29_FailureIsConnectionLocal ==
    [][ \A c \in DOMAIN conns :
          /\ (~Failed(conns[c]) /\ Failed(conns'[c])) =>
                /\ conns'[c].pc = "closed"
                /\ \A d \in DOMAIN conns \ {c} : conns'[d] = conns[d]
                /\ listening' = listening /\ watcher' = watcher
                /\ config' = config
          /\ Failed(conns[c]) =>
                /\ conns'[c].pc = "closed"
                /\ conns'[c].up = conns[c].up
                /\ conns'[c].down = conns[c].down ]_vars

C29_Witness ==
    \E c, d \in DOMAIN conns :
       /\ c # d
       /\ Sent(conns[c], "502")
       /\ conns[d].pc = "tunnel"
       /\ conns[d].copied = MaxCopied
       /\ listening

(***************************************************************************)
(* C30. No log line carries the password of a proxy URL: the line a load   *)
(* prints and the line a route resolution prints show every proxy URL,     *)
(* the system proxy's and the per-key proxy's, with its credentials        *)
(* replaced.                                                               *)
(***************************************************************************)
HasPassword(url) == url.pass \notin {"", Stars}

LogLeaks(line) == \E i \in 1..Len(line) : HasPassword(line[i])

\* the line printed by the load of this step: the snapshot handed to the
\* observer is the one that was parsed
LoadStepLog == IF notified' # <<>> THEN loadConfigLog("valid", notified'[1]) ELSE <<>>

C30_NoPasswordInLogs ==
    [][ /\ IsLoadStep => ~LogLeaks(LoadStepLog)
        /\ \A c \in DOMAIN conns :
              ResolvesRoute(c) => ~LogLeaks(resolveProxyLog(config, conns'[c].host)) ]_vars

(***************************************************************************)
(* C31. A proxy hop is dialed, and named in the handshake of the hop       *)
(* before it, at exactly the host and port written in its URL, also when   *)
(* the written port is the default port of the URL's scheme.               *)
(***************************************************************************)
\* the hop an upstream write dials or names
AddressedHop(conn, e) ==
    IF e.op = "dial" THEN e.to
    ELSE IF e.to = "system" THEN NextKind(conn)
    ELSE "target"

C31_HopsReachedAtWrittenAddress ==
    \A c \in DOMAIN conns : \A i \in 1..Len(conns[c].up) :
       LET conn == conns[c]
           e == conn.up[i]
       IN NamesAddress(e) =>
             /\ AddressedHop(conn, e) = "system" => <<e.host, e.port>> = WrittenAddr(conn.sysUrl)
             /\ AddressedHop(conn, e) = "key" => <<e.host, e.port>> = WrittenAddr(conn.keyUrl)

(***************************************************************************)
(* C32. What the client sends after the blank line that ends its header    *)
(* block reaches the upstream socket, unchanged and in order: in a tunnel, *)
(* the bytes written upstream are the bytes read from the client after     *)
(* the header block.                                                       *)
(***************************************************************************)
AfterHeaderEnd(bytes) ==
    LET e == IndexOf(bytes, HeaderEnd)
    IN IF e = 0 THEN <<>> ELSE SubSeq(bytes, e + Len(HeaderEnd), Len(bytes))

C32_ClientBytesAfterHeaderReachUpstream ==
    client.stage = "tunnel" => client.piped = AfterHeaderEnd(client.arrived)

(***************************************************************************)
(* C34. The outcome of parsing a request depends only on the bytes read    *)
(* up to the first blank line, however they were split into reads:         *)
(* nothing is decided before the blank line has been read, and from then   *)
(* on the outcome is the outcome of parsing those bytes in one piece.      *)
(***************************************************************************)
\* what was decided for the client: nothing, 400, or the accepted target
Outcome(s) ==
    IF s.stage = "parsing" THEN <<"none">>
    ELSE IF s.stage = "rejected" THEN <<"400">>
    ELSE <<"target", s.target>>

C34_ParseIndependentOfReads ==
    LET e == IndexOf(client.arrived, HeaderEnd)
        whole == SubSeq(client.arrived, 1, e + Len(HeaderEnd) - 1)
    IN  /\ client.stage # "idle" /\ e = 0 =>
              Outcome(client) = <<"none">> /\ client.status = <<>>
        /\ e # 0 =>
              /\ Outcome(client) = Outcome(onData(StartClient(<<>>), whole))
              /\ (client.status # <<>> /\ client.status[1] = "400") <=> client.stage = "rejected"

C34_Witness ==
    /\ client.stage = "connecting"
    /\ client.reads >= 3
    /\ client.wire = <<>>
    /\ client.arrived[Len(client.arrived)] = LF

(***************************************************************************)
(* C33. What a hop sends after the blank line that ends its successful     *)
(* HTTP CONNECT response belongs to the tunnel: the next stage receives    *)
(* exactly the bytes read from the hop after the response, in order, also  *)
(* those read together with the response.                                  *)
(***************************************************************************)
\* the bytes of the hop read so far
HopArrived == SubSeq(sock.reply \o Payload, 1, Len(sock.reply \o Payload) - Len(sock.wire))

AfterResponseEnd(bytes) ==
    LET e == IndexOf(bytes, ResponseEnd)
    IN IF e = 0 THEN <<>> ELSE SubSeq(bytes, e + Len(ResponseEnd), Len(bytes))

C33_HopBytesAfterResponseReachNextStage ==
    (sock.stage = "tunnel" /\ sock.reply \in HttpReplies) =>
        sock.out = AfterResponseEnd(HopArrived)

(***************************************************************************)
(* C35. The SOCKS5 connect request written for a host and port is          *)
(* 05 01 00 03, one byte that is the number of host name bytes that        *)
(* follow, the host name bytes, and the port in two bytes, high byte       *)
(* first.                                                                  *)
(***************************************************************************)
C35_SocksRequestLayout ==
    sock.sent # <<>> =>
       LET n == Len(sock.sent) IN
       /\ SubSeq(sock.sent, 1, 4) = <<5, 1, 0, 3>>
       /\ sock.sent[5] = n - 7
       /\ SubSeq(sock.sent, 6, n - 2) = sock.host
       /\ 256 * sock.sent[n - 1] + sock.sent[n] = sock.port
       /\ \A i \in 1..n : sock.sent[i] \in 0..255

(***************************************************************************)
(* C36. A connection routed to a per-key proxy U never dials the target:   *)
(* every dial goes to the host of the system proxy or of U, the target's   *)
(* host is named only in the CONNECT request written to U, and a tunnel    *)
(* has had that request written.                                           *)
(***************************************************************************)
NamesTargetToKey(conn, e) ==
    e.op = "connect" /\ e.to = "key" /\ e.host = conn.host /\ e.port = conn.port

C36_KeyRouteNeverDialsTarget ==
    \A c \in DOMAIN conns :
       LET conn == conns[c] IN
       conn.keyUrl # NullUrl =>
          /\ \A i \in 1..Len(conn.up) :
                /\ conn.up[i].op = "dial" =>
                      conn.up[i].host \in {conn.sysUrl.host, conn.keyUrl.host} \ {""}
                /\ conn.up[i].host = conn.host => NamesTargetToKey(conn, conn.up[i])
          /\ conn.pc = "tunnel" =>
                \E i \in 1..Len(conn.up) : NamesTargetToKey(conn, conn.up[i])

C36_Witness ==
    \E c \in DOMAIN conns :
       /\ conns[c].pc = "tunnel"
       /\ conns[c].keyUrl # NullUrl
       /\ conns[c].sysUrl = NullUrl
       /\ conns[c].copied = MaxCopied

(***************************************************************************)
(* C37. A client connection is sent at most one status line, 200, 400 or   *)
(* 502; no 502 follows a 200.                                              *)
(***************************************************************************)
C37_AtMostOneStatusLine ==
    \A c \in DOMAIN conns :
       /\ Len(conns[c].down) <= 1
       /\ \A i \in 1..Len(conns[c].down) : conns[c].down[i] \in {"200", "400", "502"}

C37_Witness ==
    /\ \E c \in DOMAIN conns :
          conns[c].pc = "closed" /\ conns[c].down = <<"200">> /\ conns[c].copied = MaxCopied

(***************************************************************************)
(* C38. A client that closed its socket while the router was connecting    *)
(* upstream leaves no tunnel behind: no connection is an established       *)
(* tunnel whose client socket is closed, and once the handshakes of such   *)
(* a connection are over its upstream socket is closed or ended.           *)
(***************************************************************************)
C38_NoTunnelForGoneClient ==
    \A c \in DOMAIN conns :
       conns[c].clientDestroyed =>
          /\ conns[c].pc # "tunnel"
          /\ Sent(conns[c], "200") => UpstreamSideClosed(conns[c])

(***************************************************************************)
(* C39. An observer that throws does not alter routing state: after a      *)
(* load of valid content, at start() or on a change, the router routes     *)
(* with the snapshot that was parsed and handed to the observer, whether   *)
(* the observer returned or threw.                                         *)
(***************************************************************************)
C39_ObserverThrowKeepsSnapshot ==
    [][ (IsLoadStep /\ notified' # <<>>) =>
          /\ \A h \in Hosts : resolveProxy(config', h) = resolveProxy(notified'[1], h)
          /\ systemProxyOf(config') = systemProxyOf(notified'[1]) ]_vars

(***************************************************************************)
(* C40. Whatever the sequence of start() and stop() calls, at most one     *)
(* listener and one watcher created by the router are open, and after a    *)
(* completed stop() none is.                                               *)
(***************************************************************************)
OpenWatchers == (IF watcher THEN 1 ELSE 0) + orphans.watchers

OpenListeners == (IF listening THEN 1 ELSE 0) + orphans.listeners

C40_AtMostOneListenerAndWatcher ==
    /\ OpenListeners <= 1
    /\ OpenWatchers <= 1
    /\ stopPc = "done" => OpenListeners = 0 /\ OpenWatchers = 0

====
